---- MODULE Spec2Model ----
(***************************************************************************)
(* Local Eats Chat API (src/main.py, src/schemas.py).                      *)
(*                                                                         *)
(* Two workloads over the same document store (collections "restaurant"   *)
(* and "review"):                                                          *)
(*   Spec        concurrent POST /api/reviews requests (add_review), one   *)
(*               step per store operation: insert, find, update_one;       *)
(*   SpecSeq     the same requests, one at a time;                         *)
(*   SpecSearch  one POST /api/chat request (chatbot_search) over a store  *)
(*               and a request drawn from bounded sets.                    *)
(*                                                                         *)
(* Strings are sequences of one-character strings, so that lower(),        *)
(* split(), strip(), replace() and the regular-expression matches are      *)
(* computed, not assumed.  rating_avg is held in tenths (46 is 4.6): the   *)
(* code only ever stores round(x, 1).                                      *)
(***************************************************************************)
EXTENDS Integers, Sequences, FiniteSets, TLC

VARIABLES restaurant, review, pc, body, rid, avg, count, resp,
          chat, cpc, filt, results, answer

vars == <<restaurant, review, pc, body, rid, avg, count, resp,
          chat, cpc, filt, results, answer>>

reviewVars == <<pc, body, rid, avg, count, resp>>
chatVars == <<chat, cpc, filt, results, answer>>

----------------------------------------------------------------------------
(* Bounds of the model. *)

\* review submissions in one behaviour
MaxSubmissions == 3
\* restaurants in a small store of the search workload
MaxStoreLen == 3

\* ObjectId's hexadecimal text has 24 characters (bson, used at main.py:25)
OidHexLen == 24
\* .limit(12) of both searches
SearchLimit == 12
\* [:3] of the highlights
TopN == 3

----------------------------------------------------------------------------
(* Python str operations, on sequences of characters. *)

UpperChars == <<"A","B","C","D","E","F","G","H","I","J","K","L","M",
                "N","O","P","Q","R","S","T","U","V","W","X","Y","Z">>
LowerChars == <<"a","b","c","d","e","f","g","h","i","j","k","l","m",
                "n","o","p","q","r","s","t","u","v","w","x","y","z">>

LowerChar(c) ==
    IF \E i \in 1..Len(UpperChars) : UpperChars[i] = c
    THEN LowerChars[CHOOSE i \in 1..Len(UpperChars) : UpperChars[i] = c]
    ELSE c

\* str.lower()
lower(s) == [i \in 1..Len(s) |-> LowerChar(s[i])]

Whitespace == {" "}

RECURSIVE LStrip(_, _)
LStrip(s, chars) ==
    IF s # <<>> /\ Head(s) \in chars THEN LStrip(Tail(s), chars) ELSE s

RECURSIVE RStrip(_, _)
RStrip(s, chars) ==
    IF s # <<>> /\ s[Len(s)] \in chars
    THEN RStrip(SubSeq(s, 1, Len(s) - 1), chars) ELSE s

\* str.strip(chars); str.strip() with chars = Whitespace
strip(s, chars) == RStrip(LStrip(s, chars), chars)

RECURSIVE SplitFrom(_, _, _, _)
SplitFrom(s, i, cur, acc) ==
    IF i > Len(s)
    THEN IF cur = <<>> THEN acc ELSE Append(acc, cur)
    ELSE IF s[i] \in Whitespace
         THEN SplitFrom(s, i + 1, <<>>, IF cur = <<>> THEN acc ELSE Append(acc, cur))
         ELSE SplitFrom(s, i + 1, Append(cur, s[i]), acc)

\* str.split(): the maximal runs of non-whitespace characters
split(s) == SplitFrom(s, 1, <<>>, <<>>)

StartsWithAt(s, i, old) ==
    /\ i + Len(old) - 1 <= Len(s)
    /\ \A j \in 1..Len(old) : s[i + j - 1] = old[j]

RECURSIVE ReplaceFrom(_, _, _, _)
ReplaceFrom(s, i, old, new) ==
    IF i > Len(s) THEN <<>>
    ELSE IF StartsWithAt(s, i, old)
         THEN new \o ReplaceFrom(s, i + Len(old), old, new)
         ELSE <<s[i]>> \o ReplaceFrom(s, i + 1, old, new)

\* str.replace(old, new), old non-empty
replace(s, old, new) == ReplaceFrom(s, 1, old, new)

\* the literal lit occurs in text at offset i, letter case ignored
OccursAtI(lit, text, i) ==
    /\ i >= 0
    /\ i + Len(lit) <= Len(text)
    /\ \A j \in 1..Len(lit) : LowerChar(text[i + j]) = LowerChar(lit[j])

\* {"$regex": pattern, "$options": "i"} on a string, for the patterns the
\* endpoints build from text without metacharacters: a literal, searched for
\* anywhere in the text, or held to its start by a leading ^ and to its end
\* by a trailing $
RegexI(pattern, text) ==
    LET atStart == pattern # <<>> /\ Head(pattern) = "^"
        p1 == IF atStart THEN Tail(pattern) ELSE pattern
        atEnd == p1 # <<>> /\ p1[Len(p1)] = "$"
        lit == IF atEnd THEN SubSeq(p1, 1, Len(p1) - 1) ELSE p1
        offsets == IF atStart THEN {0} ELSE 0..Len(text)
    IN  \E i \in offsets :
            /\ OccursAtI(lit, text, i)
            /\ (atEnd => i + Len(lit) = Len(text))

----------------------------------------------------------------------------
(* bson.ObjectId and the id helper. *)

HexChars == {"0","1","2","3","4","5","6","7","8","9",
             "a","b","c","d","e","f","A","B","C","D","E","F"}

\* ObjectId(s) accepts exactly the 24-character hexadecimal strings
ObjectIdValid(s) == Len(s) = OidHexLen /\ \A i \in 1..Len(s) : s[i] \in HexChars

\* the ObjectId a valid string denotes, written as str() prints it (lower case)
ObjectId(s) == lower(s)

\* oid(): the ObjectId, or HTTPException(400, "Invalid id")
InvalidId == [status |-> "400", detail |-> "Invalid id"]
oid(s) == IF ObjectIdValid(s) THEN [ok |-> TRUE, value |-> ObjectId(s)]
          ELSE [ok |-> FALSE, error |-> InvalidId]

Rep(c) == [i \in 1..OidHexLen |-> c]

----------------------------------------------------------------------------
(* The "restaurant" collection: documents of schemas.Restaurant (the fields *)
(* the two endpoints read or write), in the store's natural order.          *)

Doc(name, city, cuisine, dishes, takeaway, price_level, tags, rating_avg, rating_count) ==
    [name |-> name, city |-> city, cuisine |-> cuisine, dishes |-> dishes,
     takeaway |-> takeaway, price_level |-> price_level, tags |-> tags,
     rating_avg |-> rating_avg, rating_count |-> rating_count]

\* the three documents of seed_demo, and two more
GraffiTaco ==
    Doc(<<"G","r","a","f","f","i","T","a","c","o">>, <<"L","o","n","d","o","n">>, <<<<"m","e","x","i","c","a","n">>, <<"s","t","r","e","e","t">>>>,
        <<<<"a","l"," ","p","a","s","t","o","r"," ","t","a","c","o","s">>, <<"e","l","o","t","e">>>>, TRUE, 2,
        <<<<"l","a","t","e","-","n","i","g","h","t">>, <<"c","o","l","o","u","r","f","u","l">>>>, 46, 128)
NeonNoodles ==
    Doc(<<"N","e","o","n"," ","N","o","o","d","l","e","s">>, <<"M","a","n","c","h","e","s","t","e","r">>, <<<<"a","s","i","a","n">>, <<"t","h","a","i">>>>,
        <<<<"p","a","d"," ","t","h","a","i">>, <<"g","r","e","e","n"," ","c","u","r","r","y">>>>, TRUE, 1,
        <<<<"v","e","g","a","n","-","o","p","t","i","o","n","s">>, <<"s","p","i","c","y">>>>, 43, 93)
RamenGraffiti ==
    Doc(<<"R","a","m","e","n"," ","G","r","a","f","f","i","t","i">>, <<"L","o","n","d","o","n">>, <<<<"j","a","p","a","n","e","s","e">>, <<"r","a","m","e","n">>>>,
        <<<<"t","o","n","k","o","t","s","u">>, <<"s","p","i","c","y"," ","m","i","s","o">>>>, TRUE, 3,
        <<<<"c","o","z","y">>, <<"n","e","o","-","t","o","k","y","o">>>>, 48, 210)
TacoHut ==
    Doc(<<"T","a","c","o"," ","H","u","t">>, <<"L","o","n","d","o","n">>, <<<<"m","e","x","i","c","a","n">>>>,
        <<<<"b","u","r","r","i","t","o">>>>, TRUE, 1, <<<<"f","a","m","i","l","y">>>>, 46, 7)
Catalogue == <<GraffiTaco, NeonNoodles, RamenGraffiti, TacoHut>>

\* the i-th generated _id, as an ObjectId
IdChars == <<"a","b","0","1","2","3","4","5","6","7","8","9","d","e">>
IdOf(i) == Rep(IdChars[i])

\* insert_one: the document with its generated _id
WithId(d, i) == [k \in DOMAIN d \cup {"_id"} |-> IF k = "_id" THEN IdOf(i) ELSE d[k]]

\* a restaurant as the schema's defaults leave it before any review
Unrated(d) == [d EXCEPT !.rating_avg = 0, !.rating_count = 0]

----------------------------------------------------------------------------
(* Rating aggregation (add_review, main.py:230-236). *)

RECURSIVE Sum(_)
Sum(s) == IF s = <<>> THEN 0 ELSE Head(s) + Sum(Tail(s))

\* num/den to the nearest integer, an exact half to the even neighbour
RoundHalfEven(num, den) ==
    LET q == num \div den
        r == num % den
    IN  IF 2 * r < den THEN q
        ELSE IF 2 * r > den THEN q + 1
        ELSE IF q % 2 = 0 THEN q ELSE q + 1

AggregateTruncated(ratings) ==
    IF ratings = <<>> THEN 0 ELSE (10 * Sum(ratings)) \div Len(ratings)

\* round(mean(ratings), 1) if ratings else 0, in tenths.  mean() is the exact
\* quotient as a float, and the quotients of fewer than 20 integers that lie
\* half way between two tenths are multiples of 0.25, which a float holds
\* exactly and round() takes to the even tenth.
Aggregate(ratings) ==
    IF ratings = <<>> THEN 0 ELSE RoundHalfEven(10 * Sum(ratings), Len(ratings))

RECURSIVE SelectSeq2(_, _)
SelectSeq2(s, id) ==
    IF s = <<>> THEN <<>>
    ELSE IF Head(s).restaurant_id = id
         THEN <<Head(s)>> \o SelectSeq2(Tail(s), id)
         ELSE SelectSeq2(Tail(s), id)

FindAllReviews(coll, id) == coll

\* db["review"].find({"restaurant_id": id}): the string is compared as it is
FindReviews(coll, id) == SelectSeq2(coll, id)

\* [r.get("rating", 0) for r in reviews]
Ratings(reviews) == [i \in 1..Len(reviews) |-> reviews[i].rating]

\* create_document(collection, data): the document is appended as given
create_document(coll, data) == Append(coll, data)

\* update_one({"_id": id}, {"$set": {rating_avg, rating_count}}): the one
\* document with that _id, none when there is none
update_one(coll, id, a, c) ==
    [i \in 1..Len(coll) |->
        IF coll[i]._id = id
        THEN [coll[i] EXCEPT !.rating_avg = a, !.rating_count = c]
        ELSE coll[i]]

----------------------------------------------------------------------------
(* POST /api/reviews: add_review, one action per store operation. *)

\* the request handlers that may run at once
Workers == {"w1", "w2"}

IdA == IdOf(1)
\* the same ObjectId as IdA, spelled in upper case
IdAUpper == Rep("A")
\* well formed, no restaurant has it
IdAbsent == Rep("c")
\* malformed: not hexadecimal
IdNotHex == Rep("g")

IdInputs == {IdA, IdAUpper, IdAbsent, IdNotHex}
\* ReviewCreate.rating is a plain int
RatingInputs == {1, 6}

NoBody == [restaurant_id |-> <<>>, rating |-> 0]
NoResp == [status |-> "none"]

\* main.py:222-228
InsertReview(p, max) ==
    /\ pc[p] = "idle"
    /\ Len(review) < max
    /\ \E id \in IdInputs, r \in RatingInputs :
        /\ body' = [body EXCEPT ![p] = [restaurant_id |-> id, rating |-> r]]
        /\ review' = create_document(review, [restaurant_id |-> id, rating |-> r])
    /\ rid' = [rid EXCEPT ![p] = Len(review')]
    /\ avg' = [avg EXCEPT ![p] = 0]
    /\ count' = [count EXCEPT ![p] = 0]
    /\ resp' = [resp EXCEPT ![p] = NoResp]
    /\ pc' = [pc EXCEPT ![p] = "inserted"]
    /\ UNCHANGED <<restaurant, chatVars>>

\* main.py:232-235
ReadReviews(p) ==
    /\ pc[p] = "inserted"
    /\ LET ratings == Ratings(FindReviews(review, body[p].restaurant_id))
       IN  /\ avg' = [avg EXCEPT ![p] = Aggregate(ratings)]
           /\ count' = [count EXCEPT ![p] = Len(ratings)]
    /\ pc' = [pc EXCEPT ![p] = "read"]
    /\ UNCHANGED <<restaurant, review, body, rid, resp, chatVars>>

\* main.py:236-238
UpdateRestaurant(p) ==
    /\ pc[p] = "read"
    /\ LET o == oid(body[p].restaurant_id)
       IN  IF o.ok
           THEN /\ restaurant' = update_one(restaurant, o.value, avg[p], count[p])
                /\ resp' = [resp EXCEPT ![p] =
                              [status |-> "ok", review_id |-> rid[p],
                               rating_avg |-> avg[p], rating_count |-> count[p]]]
           ELSE /\ restaurant' = restaurant
                /\ resp' = [resp EXCEPT ![p] = o.error]
    /\ pc' = [pc EXCEPT ![p] = "idle"]
    /\ body' = [body EXCEPT ![p] = NoBody]
    /\ rid' = [rid EXCEPT ![p] = 0]
    /\ avg' = [avg EXCEPT ![p] = 0]
    /\ count' = [count EXCEPT ![p] = 0]
    /\ UNCHANGED <<review, chatVars>>

NoChat == [query |-> <<>>, city |-> <<>>]
EmptyDict == [k \in {} |-> 0]

WorkersInit ==
    /\ pc = [p \in Workers |-> "idle"]
    /\ body = [p \in Workers |-> NoBody]
    /\ rid = [p \in Workers |-> 0]
    /\ avg = [p \in Workers |-> 0]
    /\ count = [p \in Workers |-> 0]
    /\ resp = [p \in Workers |-> NoResp]

ChatIdle ==
    /\ chat = NoChat
    /\ cpc = "off"
    /\ filt = EmptyDict
    /\ results = <<>>
    /\ answer = NoResp

Init ==
    /\ restaurant = <<WithId(Unrated(GraffiTaco), 1), WithId(Unrated(NeonNoodles), 2)>>
    /\ review = <<>>
    /\ WorkersInit
    /\ ChatIdle

Next ==
    \E p \in Workers :
        \/ InsertReview(p, MaxSubmissions)
        \/ ReadReviews(p)
        \/ UpdateRestaurant(p)

Spec == Init /\ [][Next]_vars

OthersIdle(p) == \A o \in Workers \ {p} : pc[o] = "idle"

\* one request at a time: a handler steps only while no other is in progress
NextSeq ==
    \E p \in Workers :
        \/ OthersIdle(p) /\ InsertReview(p, MaxSubmissions)
        \/ OthersIdle(p) /\ ReadReviews(p)
        \/ OthersIdle(p) /\ UpdateRestaurant(p)

SpecSeq == Init /\ [][NextSeq]_vars

----------------------------------------------------------------------------
(* POST /api/chat: chatbot_search. *)

\* main.py:146-149
cuisine_keywords ==
    { <<"m","e","x","i","c","a","n">>, <<"t","a","c","o">>, <<"t","h","a","i">>, <<"a","s","i","a","n">>, <<"j","a","p","a","n","e","s","e">>, <<"r","a","m","e","n">>, <<"i","t","a","l","i","a","n">>,
      <<"p","i","z","z","a">>, <<"i","n","d","i","a","n">>, <<"b","u","r","g","e","r">>, <<"s","u","s","h","i">>, <<"k","o","r","e","a","n">>, <<"b","b","q">>, <<"v","e","g","a","n">>,
      <<"v","e","g","e","t","a","r","i","a","n">>, <<"h","a","l","a","l">>, <<"d","e","s","s","e","r","t">>, <<"n","o","o","d","l","e">>, <<"c","h","i","n","e","s","e">> }
\* main.py:153-158
BudgetWords == { <<"c","h","e","a","p">>, <<"b","u","d","g","e","t">>, <<"i","n","e","x","p","e","n","s","i","v","e">> }
ModerateWords == { <<"m","i","d">>, <<"m","o","d","e","r","a","t","e">>, <<"a","f","f","o","r","d","a","b","l","e">> }
PremiumWords == { <<"f","a","n","c","y">>, <<"p","r","e","m","i","u","m">>, <<"e","x","p","e","n","s","i","v","e">> }
TakeawayWords == { <<"t","a","k","e","a","w","a","y">>, <<"t","a","k","e","o","u","t">>, <<"t","o","-","g","o">> }
DineInWords == { <<"d","i","n","e","-","i","n">>, <<"e","a","t","-","i","n">> }
TagWords == { <<"s","p","i","c","y">>, <<"l","a","t","e","-","n","i","g","h","t">>, <<"c","o","z","y">>, <<"c","o","l","o","u","r","f","u","l">>, <<"f","a","m","i","l","y">> }
Punctuation == {".", ",", "!", "?"}

\* Optional values: <<>> is None, <<v>> is v
None == <<>>
Some(v) == <<v>>

NoIntent == [cuisines |-> <<>>, dishes |-> <<>>, tags |-> <<>>,
             price_level |-> None, takeaway |-> None]

\* w.replace('taco', 'mexican')
CuisineLabel(w) == replace(w, <<"t","a","c","o">>, <<"m","e","x","i","c","a","n">>)

\* the body of the loop over q.split(), main.py:152-160
ParseWord(st, word) ==
    LET w == strip(word, Punctuation)
        s1 == IF w \in BudgetWords THEN [st EXCEPT !.price_level = Some(1)] ELSE st
        s2 == IF w \in ModerateWords THEN [s1 EXCEPT !.price_level = Some(2)] ELSE s1
        s3 == IF w \in PremiumWords THEN [s2 EXCEPT !.price_level = Some(4)] ELSE s2
        s4 == IF w \in TakeawayWords THEN [s3 EXCEPT !.takeaway = Some(TRUE)] ELSE s3
        s5 == IF w \in DineInWords THEN [s4 EXCEPT !.takeaway = Some(FALSE)] ELSE s4
        s6 == IF w \in TagWords THEN [s5 EXCEPT !.tags = Append(@, w)] ELSE s5
    IN  IF w \in cuisine_keywords
        THEN [s6 EXCEPT !.cuisines = Append(@, CuisineLabel(w))]
        ELSE s6

RECURSIVE ParseWords(_, _)
ParseWords(st, words) ==
    IF words = <<>> THEN st ELSE ParseWords(ParseWord(st, Head(words)), Tail(words))

\* main.py:140-160
Interpret(q) == ParseWords(NoIntent, split(q))

Range(s) == {s[i] : i \in 1..Len(s)}

\* main.py:135-137 and 162-171: the keys the filter holds
FilterKeys(city, intent) ==
    {k \in {"city", "cuisine", "dishes", "tags", "price_level", "takeaway"} :
        \/ k = "city" /\ city # <<>>
        \/ k = "cuisine" /\ intent.cuisines # <<>>
        \/ k = "dishes" /\ intent.dishes # <<>>
        \/ k = "tags" /\ intent.tags # <<>>
        \/ k = "price_level" /\ intent.price_level # None /\ intent.price_level # Some(0)
        \/ k = "takeaway" /\ intent.takeaway # None}

BuildFilter(city, intent) ==
    [k \in FilterKeys(city, intent) |->
        CASE k = "city" -> [regex |-> <<"^">> \o city \o <<"$">>, options |-> "i"]
          [] k = "cuisine" -> [in |-> Range(intent.cuisines)]
          [] k = "dishes" -> [in |-> Range(intent.dishes)]
          [] k = "tags" -> [in |-> Range(intent.tags)]
          [] k = "price_level" -> [lte |-> intent.price_level[1]]
          [] k = "takeaway" -> intent.takeaway[1]]

\* the store's evaluation of one key of a filter on a document
MatchesKey(doc, f, k) ==
    CASE k = "city" -> RegexI(f[k].regex, doc.city)
      [] k = "cuisine" -> Range(doc.cuisine) \cap f[k].in # {}
      [] k = "dishes" -> Range(doc.dishes) \cap f[k].in # {}
      [] k = "tags" -> Range(doc.tags) \cap f[k].in # {}
      [] k = "price_level" -> doc.price_level <= f[k].lte
      [] k = "takeaway" -> doc.takeaway = f[k]

Matches(doc, f) == \A k \in DOMAIN f : MatchesKey(doc, f, k)

Min(a, b) == IF a < b THEN a ELSE b

\* cursor.limit(n)
Limit(s, n) == SubSeq(s, 1, Min(Len(s), n))

FindPrimaryUnlimited(coll, f) ==
    LET Test(d) == Matches(d, f) IN SelectSeq(coll, Test)

\* db["restaurant"].find(filt).limit(12), main.py:173
FindPrimary(coll, f) ==
    LET Test(d) == Matches(d, f) IN Limit(SelectSeq(coll, Test), SearchLimit)

\* {"$elemMatch": {"$regex": q, "$options": "i"}} on an array of strings
ElemMatchRegexI(q, arr) == \E i \in 1..Len(arr) : RegexI(q, arr[i])

\* the $or of main.py:178-183
FallbackMatches(doc, q) ==
    \/ RegexI(q, doc.name)
    \/ ElemMatchRegexI(q, doc.dishes)
    \/ ElemMatchRegexI(q, doc.cuisine)
    \/ ElemMatchRegexI(q, doc.tags)

\* main.py:177-184
FindFallback(coll, q) ==
    LET Test(d) == FallbackMatches(d, q) IN Limit(SelectSeq(coll, Test), SearchLimit)

FallbackWheneverEmpty(res, q) == res = <<>>

\* "if not results and q", main.py:176
FallbackNeeded(res, q) == res = <<>> /\ q # <<>>

\* str(ObjectId): the 24 hexadecimal characters, lower case
str(id) == id

\* transform, main.py:186-188
transform(doc) ==
    [k \in (DOMAIN doc \ {"_id"}) \cup {"id"} |->
        IF k = "id" THEN str(doc._id) ELSE doc[k]]

\* x is put behind the elements whose key is at least its own
RECURSIVE InsertDesc(_, _)
InsertDesc(s, x) ==
    IF s = <<>> THEN <<x>>
    ELSE IF Head(s).rating_avg >= x.rating_avg
         THEN <<Head(s)>> \o InsertDesc(Tail(s), x)
         ELSE <<x>> \o s

RECURSIVE SortedDescFrom(_, _)
SortedDescFrom(acc, s) ==
    IF s = <<>> THEN acc ELSE SortedDescFrom(InsertDesc(acc, Head(s)), Tail(s))

SortedAscending(s) ==
    IF s = <<>> THEN <<>>
    ELSE LET d == SortedDescFrom(<<>>, s) IN [i \in 1..Len(d) |-> d[Len(d) + 1 - i]]

\* sorted(payload, key=rating_avg, reverse=True): descending, and stable
\* (equal keys keep their order)
SortedDesc(s) == SortedDescFrom(<<>>, s)

RECURSIVE Join(_, _)
Join(names, sep) ==
    IF names = <<>> THEN <<>>
    ELSE IF Len(names) = 1 THEN names[1]
    ELSE names[1] \o sep \o Join(Tail(names), sep)

GuidanceMessage ==
    <<"I"," ","c","o","u","l","d","n","'","t"," ","f","i","n","d"," ","a","n"," ","e","x","a","c","t"," ","m","a","t","c","h","."," ","T","r","y"," ","m","e","n","t","i","o","n","i","n","g"," ","a"," ","c","u","i","s","i","n","e",","," ","d","i","s","h",","," ","p","r","i","c","e"," ","r","a","n","g","e"," ","(","c","h","e","a","p","/","f","a","n","c","y",")",","," ","o","r"," ","c","i","t","y",".">>

\* main.py:200-202
TopPicks(city, names) ==
    <<"T","o","p"," ","p","i","c","k","s">> \o (IF city # <<>> THEN <<" ","i","n"," ">> \o city ELSE <<>>) \o <<":"," ">>
    \o Join(names, <<","," ">>) \o <<"."," ","T","a","p"," ","a"," ","c","a","r","d"," ","t","o"," ","s","e","e"," ","d","e","t","a","i","l","s"," ","a","n","d"," ","r","e","v","i","e","w","s",".">>

\* main.py:199
Highlights(payload) == Limit(SortedDesc(payload), TopN)

\* main.py:190-204
Respond(city, res) ==
    LET payload == [i \in 1..Len(res) |-> transform(res[i])]
        top == Highlights(payload)
    IN  IF payload = <<>>
        THEN [status |-> "ok", answer |-> GuidanceMessage, results |-> <<>>]
        ELSE [status |-> "ok",
              answer |-> TopPicks(city, [i \in 1..Len(top) |-> top[i].name]),
              results |-> payload]

\* (body.query or "").lower() and (body.city or "").strip(), main.py:131-132
QueryOf(b) == lower(b.query)
CityOf(b) == strip(IF b.city = None THEN <<>> ELSE b.city[1], Whitespace)

\* main.py:131-173
ChatPrimary ==
    /\ cpc = "start"
    /\ filt' = BuildFilter(CityOf(chat), Interpret(QueryOf(chat)))
    /\ results' = FindPrimary(restaurant, filt')
    /\ cpc' = "searched"
    /\ UNCHANGED <<restaurant, review, reviewVars, chat, answer>>

\* main.py:176-184
ChatFallback ==
    /\ cpc = "searched"
    /\ FallbackNeeded(results, QueryOf(chat))
    /\ results' = FindFallback(restaurant, QueryOf(chat))
    /\ cpc' = "fallback"
    /\ UNCHANGED <<restaurant, review, reviewVars, chat, filt, answer>>

\* main.py:186-204
ChatRespond ==
    /\ \/ cpc = "searched" /\ ~FallbackNeeded(results, QueryOf(chat))
       \/ cpc = "fallback"
    /\ answer' = Respond(CityOf(chat), results)
    /\ cpc' = "done"
    /\ UNCHANGED <<restaurant, review, reviewVars, chat, filt, results>>

CheapTacosTakeaway == <<"c","h","e","a","p"," ","t","a","c","o","s"," ","t","a","k","e","a","w","a","y">>
Asdfqwerty == <<"a","s","d","f","q","w","e","r","t","y">>

QueryInputs ==
    { <<>>, CheapTacosTakeaway, Asdfqwerty, <<"C","h","e","a","p",","," ","T","A","C","O","!">>, <<"p","a","d"," ","t","h","a","i">>,
      <<"f","a","n","c","y"," ","c","h","e","a","p"," ","s","p","i","c","y">>, <<"s","u","s","h","i">>, <<"r","a","m","e","n"," ","d","i","n","e","-","i","n">>, <<" ">>, <<"g","r","a","f","f","i","t","i">> }

CityInputs == { None, Some(<<>>), Some(<<"L","o","n","d","o","n">>), Some(<<" ","l","o","n","d","o","n"," ">>), Some(<<"P","a","r","i","s">>) }

Injective(f) == \A i, j \in DOMAIN f : f[i] = f[j] => i = j

\* a store of the catalogue's restaurants in some order, each at most once
SmallStores ==
    { [i \in 1..Len(o) |-> WithId(Catalogue[o[i]], i)] :
        o \in { f \in UNION { [1..n -> 1..Len(Catalogue)] : n \in 0..MaxStoreLen } :
                    Injective(f) } }

\* a store of n restaurants, the catalogue's over and over under fresh ids
CycleStore(n) ==
    [i \in 1..n |-> WithId(Catalogue[((i - 1) % Len(Catalogue)) + 1], i)]

Stores == SmallStores \cup {CycleStore(SearchLimit), CycleStore(SearchLimit + 1)}

SearchInit ==
    /\ restaurant \in Stores
    /\ review = <<>>
    /\ WorkersInit
    /\ chat \in [query : QueryInputs, city : CityInputs]
    /\ cpc = "start"
    /\ filt = EmptyDict
    /\ results = <<>>
    /\ answer = NoResp

NextSearch == ChatPrimary \/ ChatFallback \/ ChatRespond

SpecSearch == SearchInit /\ [][NextSearch]_vars

----------------------------------------------------------------------------
(* Properties of review submission. *)

Quiescent == \A p \in Workers : pc[p] = "idle"

\* the id string denotes restaurant r
Resolves(id, r) == ObjectIdValid(id) /\ ObjectId(id) = r._id

\* r's id is what every review that denotes r carries (no other spelling of
\* the same ObjectId was submitted)
SpelledAsStored(r) ==
    \A k \in 1..Len(review) :
        Resolves(review[k].restaurant_id, r) => review[k].restaurant_id = r._id

Submitted(r) == \E k \in 1..Len(review) : Resolves(review[k].restaurant_id, r)

Abs(x) == IF x < 0 THEN -x ELSE x

\* t tenths is sum/n rounded to one decimal place (an exact half goes to the
\* even tenth, as Python's round does)
IsRoundedMean(t, ratings) ==
    LET n == Len(ratings)
        d == Abs(10 * Sum(ratings) - t * n)
    IN  /\ 2 * d <= n
        /\ (2 * d = n => t % 2 = 0)

LastIndexOf(id) ==
    CHOOSE k \in 1..Len(review) :
        /\ review[k].restaurant_id = id
        /\ \A j \in (k + 1)..Len(review) : review[j].restaurant_id # id

C2_AggregateConsistent ==
    Quiescent =>
        \A i \in 1..Len(restaurant) :
            LET r == restaurant[i]
                mine == Ratings(FindReviews(review, r._id))
            IN  (Submitted(r) /\ SpelledAsStored(r)) =>
                    /\ r.rating_count = Len(mine)
                    /\ IsRoundedMean(r.rating_avg, mine)

\* C2, amended: whenever no submission is in progress, every restaurant that
\* has received a submission holds the count and rounded mean of the reviews
\* one of its submissions read: a non-empty prefix, in insertion order, of
\* the Review records carrying one id string that denotes it.
C2_AggregateOfSomeRead ==
    Quiescent =>
        \A i \in 1..Len(restaurant) :
            LET r == restaurant[i]
            IN  Submitted(r) =>
                    \E k \in 1..Len(review) :
                        /\ Resolves(review[k].restaurant_id, r)
                        /\ LET mine == Ratings(FindReviews(SubSeq(review, 1, k),
                                                           review[k].restaurant_id))
                           IN  /\ r.rating_count = Len(mine)
                               /\ IsRoundedMean(r.rating_avg, mine)

\* two overlapping submissions 1 and 6 left the aggregate of the first alone
C2_Witness ==
    /\ Quiescent
    /\ Ratings(FindReviews(review, IdA)) = <<1, 6>>
    /\ Len(review) = 2
    /\ restaurant[1].rating_count = 1
    /\ restaurant[1].rating_avg = 10

\* C6: every Review record left in the store refers to an existing
\* restaurant (stated where no submission is in progress; any spelling of
\* the restaurant's ObjectId counts as a reference to it).
C6_ReferentialIntegrity ==
    Quiescent =>
        \A k \in 1..Len(review) :
            \E i \in 1..Len(restaurant) : Resolves(review[k].restaurant_id, restaurant[i])

\* C7: every persisted review has a rating in 1..5 and every restaurant's
\* rating_avg lies in 0..5 (0..50 tenths).
C7_RatingRange ==
    /\ \A k \in 1..Len(review) : review[k].rating \in 1..5
    /\ \A i \in 1..Len(restaurant) : restaurant[i].rating_avg \in 0..50

\* C9: the step in which add_review fails with the id-format error leaves
\* the restaurants as they were, and the store does not hold the review the
\* failing request inserted.
C9_ErrorAtomicity ==
    [][\A p \in Workers :
          (pc[p] = "read" /\ pc'[p] = "idle" /\ resp'[p] = InvalidId)
          => /\ restaurant' = restaurant
             /\ rid[p] \notin 1..Len(review')]_vars

----------------------------------------------------------------------------
(* Properties of the search. *)

Mexican == <<"m","e","x","i","c","a","n">>

\* what the claimed predicate selects
CheapMexicanTakeaway(d) ==
    d.price_level <= 1 /\ Mexican \in Range(d.cuisine) /\ d.takeaway = TRUE

\* C3: for "cheap tacos takeaway" and no city, Step 1 returns the store's
\* restaurants (the first 12) with price_level <= 1, mexican among their
\* cuisines and takeaway = true, and no other restaurant.
C3_CheapTacosTakeaway ==
    (chat.query = CheapTacosTakeaway /\ chat.city = None /\ cpc = "searched") =>
        results = Limit(SelectSeq(restaurant, CheapMexicanTakeaway), SearchLimit)

\* the text occurs in s, letter case ignored
ContainsText(s, text) ==
    \E i \in 1..(Len(s) - Len(text) + 1) :
        lower(SubSeq(s, i, i + Len(text) - 1)) = lower(text)

TextInSomeField(doc, text) ==
    \/ ContainsText(doc.name, text)
    \/ \E f \in {"dishes", "cuisine", "tags"} :
          \E i \in 1..Len(doc[f]) : ContainsText(doc[f][i], text)

\* a non-empty query, no city, no recognized vocabulary token, the text in no
\* restaurant's name, dishes, cuisine or tags
NoMatchRequest ==
    /\ chat.query # <<>>
    /\ CityOf(chat) = <<>>
    /\ Interpret(QueryOf(chat)) = NoIntent
    /\ \A i \in 1..Len(restaurant) : ~TextInSomeField(restaurant[i], chat.query)

Guidance == [status |-> "ok", answer |-> GuidanceMessage, results |-> <<>>]

C5_FallbackGating ==
    [][(cpc = "searched" /\ cpc' # cpc) =>
          ((cpc' = "fallback") <=> (results = <<>> /\ chat.query # <<>>))]_vars

\* Step 2 has run and found something
C5_Witness == cpc = "fallback" /\ results # <<>> /\ chat.query # <<>>

RankedBefore(c, i, j) ==
    \/ c[i].rating_avg > c[j].rating_avg
    \/ c[i].rating_avg = c[j].rating_avg /\ i < j

\* the index of the candidate with k - 1 candidates ranked before it
IndexOfRank(c, k) ==
    CHOOSE i \in 1..Len(c) :
        Cardinality({j \in 1..Len(c) : RankedBefore(c, j, i)}) = k - 1

\* C8: for a non-empty candidate list the summary names the (at most 3)
\* candidates of highest rating_avg, highest first, ties in candidate order;
\* the results are all the candidates in candidate order (with id for _id);
\* composing the response again from the same candidates gives the same.
C8_Ranking ==
    (cpc = "done" /\ results # <<>>) =>
        LET m == Min(TopN, Len(results))
            expected == [k \in 1..m |-> results[IndexOfRank(results, k)].name]
        IN  /\ answer.answer = TopPicks(CityOf(chat), expected)
            /\ Len(answer.results) = Len(results)
            /\ \A i \in 1..Len(results) :
                  /\ DOMAIN answer.results[i] = (DOMAIN results[i] \ {"_id"}) \cup {"id"}
                  /\ answer.results[i].id = results[i]._id
                  /\ \A k \in DOMAIN results[i] \ {"_id"} :
                        answer.results[i][k] = results[i][k]
            /\ Respond(CityOf(chat), results) = answer

\* candidates Taco Hut 4.6, Neon Noodles 4.3, GraffiTaco 4.6, Ramen Graffiti
\* 4.8 ...: the summary names three of more, the tie in candidate order
C8_Witness ==
    /\ cpc = "done"
    /\ Len(results) > TopN
    /\ answer.answer = TopPicks(CityOf(chat),
                                <<RamenGraffiti.name, RamenGraffiti.name, RamenGraffiti.name>>)

\* C10: with a non-empty city every returned restaurant's city is the given
\* city, letter case ignored, whichever search found it.
C10_CityConstraint ==
    (cpc = "done" /\ CityOf(chat) # <<>>) =>
        \A i \in 1..Len(answer.results) :
            lower(answer.results[i].city) = lower(CityOf(chat))

====
